---------------------------- MODULE Spec2Model ----------------------------
(***************************************************************************)
(* A model of two parts of native-windows-gui:                             *)
(*   - controls/list_box.rs: ListBox<D>, a host collection (RefCell<Vec>)  *)
(*     kept beside the rows rendered by a native list box;                 *)
(*   - events.rs: the event payloads (ToolTipTextData, ...).               *)
(* The native list box is reached only through wh::send_message; its       *)
(* answers to the LB_* messages follow the platform's documented           *)
(* behaviour for a single-selection list box with LBS_HASSTRINGS.          *)
(***************************************************************************)
EXTENDS Integers, Sequences, FiniteSets, TLC

VARIABLES
    handle,      \* ListBox.handle: "NoHandle" (blank) or "Hwnd"
    collection,  \* ListBox.collection: the Vec<D> inside the RefCell
    borrow,      \* the RefCell's borrow flag: 0 unused, n > 0 readers, -1 writer
    rows,        \* the native list box: rendered rows, each a sequence of UTF-16 units
    cursel,      \* the native list box: highlighted row, -1 when none
    last,        \* the last call: [op, arg, outcome, ret, sent]
    ever_selected, \* history: a call has highlighted a row since the control was bound
    szText,      \* NMTTDISPINFOW.szText: 80 UTF-16 units, indexed from 0
    uFlags,      \* NMTTDISPINFOW.uFlags
    tt_last,     \* the last tooltip call: [op, arg, outcome]
    ev_pc,       \* the dispatch: "idle", "callback", "returned" or "unwound"
    ev_data,     \* the EventData of the dispatch: [tag, val]
    drag_log,    \* the shell calls made on the HDROP of the dispatch, in order
    should_exit, \* the dispatcher's flag behind WindowCloseData.data
    close_hist,  \* history: the value of the last close(v) of the dispatch, if any
    window_open, \* the window has not been destroyed
    ev_calls,    \* the number of calls the callback has made on the payload
    ev_last      \* the last call on the payload: [op, outcome, ret]

listvars == <<handle, collection, borrow, rows, cursel, last, ever_selected>>
tipvars  == <<szText, uFlags, tt_last>>
evvars   == <<ev_pc, ev_data, drag_log, should_exit, close_hist, window_open,
             ev_calls, ev_last>>
vars     == <<handle, collection, borrow, rows, cursel, last, ever_selected,
             szText, uFlags, tt_last,
             ev_pc, ev_data, drag_log, should_exit, close_hist, window_open,
             ev_calls, ev_last>>

---------------------------------------------------------------------------
(* Bounds of the model. *)

\* Longest host collection and longest rendered list explored.
MaxLen == 3

\* Longest vector handed to set_collection.
MaxNewLen == 2

\* Most shared borrows (Ref guards) held at once.
MaxBorrows == 2

\* Width of usize / WPARAM / LPARAM in bits, scaled down from 32 or 64.
UsizeBits == 4

USIZE_MAX == 2^UsizeBits - 1

---------------------------------------------------------------------------
(* Rust values. *)

None == <<>>
Some(x) == <<x>>

\* `x as isize` of a usize, and `x as usize` of an isize (two's complement).
as_isize(x) == IF x >= 2^(UsizeBits - 1) THEN x - 2^UsizeBits ELSE x
as_usize(x) == x % 2^UsizeBits

\* The items D of the collection, and their Display texts (sequences of chars):
\* 1 is "Ap", 2 is "b".
Items == {1, 2}

format(item) == IF item = 1 THEN <<65, 112>> ELSE <<98>>

\* Vectors of at most n items.
Vecs(n) == UNION {[1..k -> Items] : k \in 0..n}

\* Vec::remove on an index in range.
VecRemove(v, index) == SubSeq(v, 1, index) \o SubSeq(v, index + 2, Len(v))

\* The usize arguments a caller passes: small indices, and usize::MAX.
Indices == 0..MaxLen \cup {USIZE_MAX}

---------------------------------------------------------------------------
(* String marshaling (win32::base_helper). *)

\* UTF-8 length of a char, which is what str::len counts.
utf8_len(c) == IF c < 128 THEN 1 ELSE IF c < 2048 THEN 2 ELSE IF c < 65536 THEN 3 ELSE 4

RECURSIVE str_len(_)
str_len(text) == IF text = <<>> THEN 0 ELSE utf8_len(Head(text)) + str_len(Tail(text))

\* UTF-16 units of a char: one unit, or a surrogate pair above the BMP.
encode_wide(c) ==
    IF c < 65536 THEN <<c>>
    ELSE <<55296 + ((c - 65536) \div 1024), 56320 + ((c - 65536) % 1024)>>

RECURSIVE encode_wide_str(_)
encode_wide_str(text) ==
    IF text = <<>> THEN <<>> ELSE encode_wide(Head(text)) \o encode_wide_str(Tail(text))

\* to_utf16: the UTF-16 units of the text, then a terminating 0.
to_utf16(text) == encode_wide_str(text) \o <<0>>

\* What the platform reads behind a string pointer: the units before the first 0.
RECURSIVE c_str(_)
c_str(units) ==
    IF units = <<>> \/ Head(units) = 0 THEN <<>> ELSE <<Head(units)>> \o c_str(Tail(units))


\* from_utf16: the chars of the units before the first 0.
RECURSIVE decode_wide(_)
decode_wide(units) ==
    IF units = <<>> THEN <<>>
    ELSE IF /\ Len(units) >= 2
            /\ units[1] \in 55296..56319
            /\ units[2] \in 56320..57343
         THEN <<65536 + (units[1] - 55296) * 1024 + (units[2] - 56320)>>
                  \o decode_wide(Tail(Tail(units)))
         ELSE <<Head(units)>> \o decode_wide(Tail(units))

from_utf16(units) == decode_wide(c_str(units))

---------------------------------------------------------------------------
(* The native list box behind wh::send_message(handle, LB_*, wparam, lparam). *)
(* Each handler takes the widget [rows, cursel] and yields the widget after   *)
(* the message and the message's result.                                      *)

CB_ERR == -1

Widget == [rows |-> rows, cursel |-> cursel]

Reply(r, c, res) == [rows |-> r, cursel |-> c, res |-> res]

\* Window styles of the control: the default flags and the flags it forces.
flags == {"WS_VISIBLE"}

\* Mutant: the forced flags ask for a sorted list.
forced_flags_sort ==
    {"LBS_HASSTRINGS", "LBS_SORT", "LBS_NOTIFY", "WS_BORDER", "WS_CHILD", "WS_VSCROLL"}

forced_flags == {"LBS_HASSTRINGS", "LBS_NOTIFY", "WS_BORDER", "WS_CHILD", "WS_VSCROLL"}

\* The list box sorts on insertion only when created with LBS_SORT.
sorted == "LBS_SORT" \in (flags \cup forced_flags)

lower(u) == IF u \in 65..90 THEN u + 32 ELSE u

\* a <= b, letter case ignored.
RECURSIVE str_le(_, _)
str_le(a, b) ==
    IF a = <<>> THEN TRUE
    ELSE IF b = <<>> THEN FALSE
    ELSE IF lower(Head(a)) # lower(Head(b)) THEN lower(Head(a)) < lower(Head(b))
    ELSE str_le(Tail(a), Tail(b))

\* text begins with prefix, letter case ignored.
has_prefix(text, prefix) ==
    /\ Len(prefix) <= Len(text)
    /\ \A k \in 1..Len(prefix) : lower(text[k]) = lower(prefix[k])

InsertAt(s, pos, x) == SubSeq(s, 1, pos) \o <<x>> \o SubSeq(s, pos + 1, Len(s))

\* LB_ADDSTRING: the string behind lparam becomes a row, at the end of the list
\* or, with LBS_SORT, at its sorted place. A highlight at or below the new row
\* moves down with its row. The result is the new row's index.
LB_ADDSTRING(w, lparam) ==
    LET text == c_str(lparam)
        pos  == IF sorted
                THEN Cardinality({k \in 1..Len(w.rows) : str_le(w.rows[k], text)})
                ELSE Len(w.rows)
        sel  == IF w.cursel >= pos THEN w.cursel + 1 ELSE w.cursel
    IN  Reply(InsertAt(w.rows, pos, text), sel, pos)

\* LB_DELETESTRING: deletes the row at index wparam; LB_ERR and no change when
\* there is no such row. A deleted highlight is lost, one below it moves up.
LB_DELETESTRING(w, wparam) ==
    LET index == as_isize(wparam)
    IN  IF index < 0 \/ index >= Len(w.rows) THEN Reply(w.rows, w.cursel, CB_ERR)
        ELSE Reply(VecRemove(w.rows, index),
                   IF w.cursel = index THEN -1
                   ELSE IF w.cursel > index THEN w.cursel - 1 ELSE w.cursel,
                   Len(w.rows) - 1)

\* LB_GETCURSEL: the highlighted row, LB_ERR when none.
LB_GETCURSEL(w) == Reply(w.rows, w.cursel, w.cursel)

\* LB_SETCURSEL: wparam -1 removes the highlight, a row's index highlights it,
\* any other index is an error that changes nothing.
LB_SETCURSEL(w, wparam) ==
    LET index == as_isize(wparam)
    IN  IF index = -1 THEN Reply(w.rows, -1, CB_ERR)
        ELSE IF index < 0 \/ index >= Len(w.rows) THEN Reply(w.rows, w.cursel, CB_ERR)
        ELSE Reply(w.rows, index, index)

\* The order in which LB_SELECTSTRING looks at the rows: from the row after
\* wparam to the last, then from the first back to row wparam; all rows from
\* the first when wparam is -1 or not a row.
SearchOrder(n, wparam) ==
    LET start == IF as_isize(wparam) >= n THEN -1 ELSE as_isize(wparam)
    IN  [k \in 1..n |-> (start + k) % n]

\* LB_SELECTSTRING: highlights the first row, in search order, that begins with
\* the string behind lparam; LB_ERR and no change when no row does.
LB_SELECTSTRING(w, wparam, lparam) ==
    LET prefix == c_str(lparam)
        order  == SearchOrder(Len(w.rows), wparam)
        hits   == {k \in 1..Len(w.rows) : has_prefix(w.rows[order[k] + 1], prefix)}
    IN  IF hits = {} THEN Reply(w.rows, w.cursel, CB_ERR)
        ELSE LET first == CHOOSE k \in hits : \A j \in hits : k <= j
             IN  Reply(w.rows, order[first], order[first])

\* LB_RESETCONTENT: removes every row, and with them the highlight.
LB_RESETCONTENT(w) == Reply(<<>>, -1, 0)

\* LB_INITSTORAGE: reserves memory; the rows are untouched.
LB_INITSTORAGE(w, wparam, lparam) == Reply(w.rows, w.cursel, wparam)

\* LB_GETCOUNT: the number of rows.
LB_GETCOUNT(w) == Reply(w.rows, w.cursel, Len(w.rows))

\* LB_GETTEXTLEN: the length of row wparam in units, without the terminating 0.
LB_GETTEXTLEN(w, wparam) ==
    IF wparam < Len(w.rows) THEN Reply(w.rows, w.cursel, Len(w.rows[wparam + 1]))
    ELSE Reply(w.rows, w.cursel, CB_ERR)

\* LB_GETTEXT: the units written behind lparam: row wparam and a terminating 0.
LB_GETTEXT(w, wparam) ==
    IF wparam < Len(w.rows) THEN w.rows[wparam + 1] \o <<0>> ELSE <<>>

---------------------------------------------------------------------------
(* ListBox<D> (controls/list_box.rs). Every method is one action; `last`   *)
(* records the call: its name, argument, outcome ("ok" or the panic), the  *)
(* returned value and the messages sent to the widget, in order.           *)

Call(op, arg, outcome, ret, sent) ==
    [op |-> op, arg |-> arg, outcome |-> outcome, ret |-> ret, sent |-> sent]

\* A panic ends the program: no method runs after one.
Running == last.outcome = "ok"

\* ControlHandle::blank: no native object is attached yet.
blank(h) == h = "NoHandle"

\* Option::unwrap_or.
unwrap_or(opt, default) == IF opt = None THEN default ELSE opt[1]

\* The control is created: the handle is bound to a new, empty list box.
bind ==
    /\ Running
    /\ blank(handle)
    /\ handle' = "Hwnd"
    /\ rows' = <<>>
    /\ cursel' = -1
    /\ last' = Call("bind", None, "ok", None, <<>>)
    /\ UNCHANGED <<collection, borrow>>
    /\ ever_selected' = FALSE
    /\ UNCHANGED tipvars
    /\ UNCHANGED evvars

\* panic!(NOT_BOUND): the first statement of every method but collection(_mut).
not_bound(op, arg) ==
    /\ last' = Call(op, arg, "NOT_BOUND", None, <<>>)
    /\ UNCHANGED <<handle, collection, borrow, rows, cursel>>

\* Mutant: the item is pushed before the handle is looked at.
push_before_check(item) ==
    /\ Running
    /\ Len(collection) < MaxLen
    /\ Len(rows) < MaxLen
    /\ IF blank(handle)
       THEN /\ last' = Call("push", item, "NOT_BOUND", None, <<>>)
            /\ collection' = IF borrow = 0 THEN Append(collection, item) ELSE collection
            /\ UNCHANGED <<handle, borrow, rows, cursel>>
       ELSE LET r == LB_ADDSTRING(Widget, to_utf16(format(item)))
            IN  /\ rows' = r.rows
                /\ cursel' = r.cursel
                /\ IF borrow # 0
                   THEN /\ last' = Call("push", item, "BorrowMutError", None, <<"LB_ADDSTRING">>)
                        /\ UNCHANGED collection
                   ELSE /\ collection' = Append(collection, item)
                        /\ last' = Call("push", item, "ok", None, <<"LB_ADDSTRING">>)
                /\ UNCHANGED <<handle, borrow>>
    /\ UNCHANGED ever_selected
    /\ UNCHANGED tipvars
    /\ UNCHANGED evvars

\* Mutant: the item is put at the front of the vector.
push_front(item) ==
    /\ Running
    /\ Len(collection) < MaxLen
    /\ Len(rows) < MaxLen
    /\ IF blank(handle) THEN not_bound("push", item)
       ELSE LET display    == format(item)
                display_os == to_utf16(display)
                r          == LB_ADDSTRING(Widget, display_os)
            IN  /\ rows' = r.rows
                /\ cursel' = r.cursel
                /\ IF borrow # 0
                   THEN /\ last' = Call("push", item, "BorrowMutError", None, <<"LB_ADDSTRING">>)
                        /\ UNCHANGED collection
                   ELSE /\ collection' = <<item>> \o collection
                        /\ last' = Call("push", item, "ok", None, <<"LB_ADDSTRING">>)
                /\ UNCHANGED <<handle, borrow>>
    /\ UNCHANGED ever_selected
    /\ UNCHANGED tipvars
    /\ UNCHANGED evvars

push(item) ==
    /\ Running
    /\ Len(collection) < MaxLen
    /\ Len(rows) < MaxLen
    /\ IF blank(handle) THEN not_bound("push", item)
       ELSE LET display    == format(item)
                display_os == to_utf16(display)
                r          == LB_ADDSTRING(Widget, display_os)
            IN  /\ rows' = r.rows
                /\ cursel' = r.cursel
                /\ IF borrow # 0
                   THEN /\ last' = Call("push", item, "BorrowMutError", None, <<"LB_ADDSTRING">>)
                        /\ UNCHANGED collection
                   ELSE /\ collection' = Append(collection, item)
                        /\ last' = Call("push", item, "ok", None, <<"LB_ADDSTRING">>)
                /\ UNCHANGED <<handle, borrow>>
    /\ UNCHANGED ever_selected
    /\ UNCHANGED tipvars
    /\ UNCHANGED evvars

\* Mutant: the row after the item's is deleted.
remove_wparam_next(index) == as_usize(index + 1)

\* The wparam remove sends: `index as WPARAM`.
remove_wparam(index) == index

\* Mutant: an index out of range yields a default item instead of a panic.
remove_or_default(index) ==
    /\ Running
    /\ IF blank(handle) THEN not_bound("remove", index)
       ELSE LET r == LB_DELETESTRING(Widget, remove_wparam(index))
            IN  /\ rows' = r.rows
                /\ cursel' = r.cursel
                /\ IF borrow # 0
                   THEN /\ last' = Call("remove", index, "BorrowMutError", None, <<"LB_DELETESTRING">>)
                        /\ UNCHANGED collection
                   ELSE IF index >= Len(collection)
                   THEN /\ last' = Call("remove", index, "ok", 1, <<"LB_DELETESTRING">>)
                        /\ UNCHANGED collection
                   ELSE /\ collection' = VecRemove(collection, index)
                        /\ last' = Call("remove", index, "ok", collection[index + 1], <<"LB_DELETESTRING">>)
                /\ UNCHANGED <<handle, borrow>>
    /\ UNCHANGED ever_selected
    /\ UNCHANGED tipvars
    /\ UNCHANGED evvars

remove(index) ==
    /\ Running
    /\ IF blank(handle) THEN not_bound("remove", index)
       ELSE LET r == LB_DELETESTRING(Widget, remove_wparam(index))
            IN  /\ rows' = r.rows
                /\ cursel' = r.cursel
                /\ IF borrow # 0
                   THEN /\ last' = Call("remove", index, "BorrowMutError", None, <<"LB_DELETESTRING">>)
                        /\ UNCHANGED collection
                   ELSE IF index >= Len(collection)
                   THEN /\ last' = Call("remove", index, "IndexOutOfBounds", None, <<"LB_DELETESTRING">>)
                        /\ UNCHANGED collection
                   ELSE /\ collection' = VecRemove(collection, index)
                        /\ last' = Call("remove", index, "ok", collection[index + 1], <<"LB_DELETESTRING">>)
                /\ UNCHANGED <<handle, borrow>>
    /\ UNCHANGED ever_selected
    /\ UNCHANGED tipvars
    /\ UNCHANGED evvars

\* Mutant: the answer is not tested for CB_ERR.
selection_value_unchecked(w) ==
    LET index == LB_GETCURSEL(w).res
    IN  Some(as_usize(index))

\* The value selection() returns on a bound control.
selection_value(w) ==
    LET index == LB_GETCURSEL(w).res
    IN  IF index = CB_ERR THEN None ELSE Some(as_usize(index))

selection ==
    /\ Running
    /\ IF blank(handle) THEN not_bound("selection", None)
       ELSE /\ last' = Call("selection", None, "ok", selection_value(Widget), <<"LB_GETCURSEL">>)
            /\ UNCHANGED <<handle, collection, borrow, rows, cursel>>
    /\ UNCHANGED ever_selected
    /\ UNCHANGED tipvars
    /\ UNCHANGED evvars

\* The units LB_GETTEXT writes past the end of selection_string()'s buffer,
\* which has room for `length` units: the row's text is followed by a 0.
selection_string_overflow(w) ==
    LET index == LB_GETCURSEL(w).res
    IN  IF index = CB_ERR THEN <<>>
        ELSE LET length == as_usize(LB_GETTEXTLEN(w, as_usize(index)).res)
                 text   == LB_GETTEXT(w, as_usize(index))
             IN  SubSeq(text, length + 1, Len(text))

\* What a call of selection_string() can come to: it returns, or, when
\* LB_GETTEXT has written past the end of the buffer, the write faults or
\* damages the heap.
selection_string_outcomes(w) ==
    IF selection_string_overflow(w) = <<>> THEN {"ok"}
    ELSE {"ok", "BufferOverflow"}

\* The value selection_string() returns on a bound control: the buffer has
\* `length` units, of which LB_GETTEXT fills every one.
selection_string_value(w) ==
    LET index == LB_GETCURSEL(w).res
    IN  IF index = CB_ERR THEN None
        ELSE LET length == as_usize(LB_GETTEXTLEN(w, as_usize(index)).res)
                 buffer == SubSeq(LB_GETTEXT(w, as_usize(index)), 1, length)
             IN  Some(from_utf16(buffer))

selection_string ==
    /\ Running
    /\ IF blank(handle) THEN not_bound("selection_string", None)
       ELSE /\ \E outcome \in selection_string_outcomes(Widget) :
                  last' = Call("selection_string", None, outcome,
                               IF outcome = "ok" THEN selection_string_value(Widget)
                               ELSE None,
                               IF cursel = -1 THEN <<"LB_GETCURSEL">>
                               ELSE <<"LB_GETCURSEL", "LB_GETTEXTLEN", "LB_GETTEXT">>)
            /\ UNCHANGED <<handle, collection, borrow, rows, cursel>>
    /\ UNCHANGED ever_selected
    /\ UNCHANGED tipvars
    /\ UNCHANGED evvars

\* Mutant: None is sent as row 0.
set_selection_wparam_zero(index) == unwrap_or(index, 0)

\* The wparam set_selection sends: the index, or -1 as a usize for None.
set_selection_wparam(index) == unwrap_or(index, as_usize(-1))

set_selection(index) ==
    /\ Running
    /\ IF blank(handle) THEN not_bound("set_selection", index)
       ELSE LET r == LB_SETCURSEL(Widget, set_selection_wparam(index))
            IN  /\ rows' = r.rows
                /\ cursel' = r.cursel
                /\ last' = Call("set_selection", index, "ok", None, <<"LB_SETCURSEL">>)
                /\ UNCHANGED <<handle, collection, borrow>>
    /\ ever_selected' = (ever_selected \/ cursel' # -1)
    /\ UNCHANGED tipvars
    /\ UNCHANGED evvars

\* The wparam set_selection_string sends with its LB_SELECTSTRING.
select_string_start == 0

set_selection_string(value) ==
    /\ Running
    /\ IF blank(handle) THEN not_bound("set_selection_string", value)
       ELSE LET os_string == to_utf16(value)
                r         == LB_SELECTSTRING(Widget, select_string_start, os_string)
            IN  /\ rows' = r.rows
                /\ cursel' = r.cursel
                /\ last' = Call("set_selection_string", value, "ok",
                                IF r.res = CB_ERR THEN None ELSE Some(as_usize(r.res)),
                                <<"LB_SELECTSTRING">>)
                /\ UNCHANGED <<handle, collection, borrow>>
    /\ ever_selected' = (ever_selected \/ cursel' # -1)
    /\ UNCHANGED tipvars
    /\ UNCHANGED evvars

\* Mutant: no row is cleared.
clear_inner_none(w) == Reply(w.rows, w.cursel, 0)

\* clear_inner: LB_RESETCONTENT.
clear_inner(w) == LB_RESETCONTENT(w)

\* One LB_ADDSTRING per item, in the vector's order.
RECURSIVE add_strings(_, _)
add_strings(w, v) ==
    IF v = <<>> THEN w
    ELSE add_strings(LB_ADDSTRING(w, to_utf16(format(Head(v)))), Tail(v))

AddStringMsgs(v) == [k \in 1..Len(v) |-> "LB_ADDSTRING"]

sync ==
    /\ Running
    /\ IF blank(handle) THEN not_bound("sync", None)
       ELSE LET cleared == clear_inner(Widget)
            IN  IF borrow < 0
                THEN /\ rows' = cleared.rows
                     /\ cursel' = cleared.cursel
                     /\ last' = Call("sync", None, "BorrowError", None, <<"LB_RESETCONTENT">>)
                     /\ UNCHANGED <<handle, collection, borrow>>
                ELSE LET item_count == Len(collection)
                         reserved   == LB_INITSTORAGE(cleared, item_count, 10 * item_count)
                         r          == add_strings(reserved, collection)
                     IN  /\ rows' = r.rows
                         /\ cursel' = r.cursel
                         /\ last' = Call("sync", None, "ok", None,
                                         <<"LB_RESETCONTENT", "LB_INITSTORAGE">>
                                             \o AddStringMsgs(collection))
                         /\ UNCHANGED <<handle, collection, borrow>>
    /\ UNCHANGED ever_selected
    /\ UNCHANGED tipvars
    /\ UNCHANGED evvars

\* Mutant: the vectors are not exchanged.
mem_swap_none(x, y) == [x |-> x, y |-> y]

\* mem::swap(&mut x, &mut y).
mem_swap(x, y) == [x |-> y, y |-> x]

set_collection(col) ==
    /\ Running
    /\ IF blank(handle) THEN not_bound("set_collection", col)
       ELSE LET cleared == clear_inner(Widget)
                r       == add_strings(cleared, col)
                sent    == <<"LB_RESETCONTENT">> \o AddStringMsgs(col)
            IN  /\ rows' = r.rows
                /\ cursel' = r.cursel
                /\ IF borrow # 0
                   THEN /\ last' = Call("set_collection", col, "BorrowMutError", None, sent)
                        /\ UNCHANGED collection
                   ELSE LET swapped == mem_swap(collection, col)
                        IN  /\ collection' = swapped.x
                            /\ last' = Call("set_collection", col, "ok", swapped.y, sent)
                /\ UNCHANGED <<handle, borrow>>
    /\ UNCHANGED ever_selected
    /\ UNCHANGED tipvars
    /\ UNCHANGED evvars

\* Mutant: the length of the host vector is returned.
len_of_items ==
    /\ Running
    /\ IF blank(handle) THEN not_bound("len", None)
       ELSE /\ last' = Call("len", None, "ok", Len(collection), <<"LB_GETCOUNT">>)
            /\ UNCHANGED <<handle, collection, borrow, rows, cursel>>
    /\ UNCHANGED ever_selected
    /\ UNCHANGED tipvars
    /\ UNCHANGED evvars

len ==
    /\ Running
    /\ IF blank(handle) THEN not_bound("len", None)
       ELSE /\ last' = Call("len", None, "ok", as_usize(LB_GETCOUNT(Widget).res), <<"LB_GETCOUNT">>)
            /\ UNCHANGED <<handle, collection, borrow, rows, cursel>>
    /\ UNCHANGED ever_selected
    /\ UNCHANGED tipvars
    /\ UNCHANGED evvars

\* collection(): RefCell::borrow, whose Ref the caller then holds.
collection_ref ==
    /\ Running
    /\ borrow < MaxBorrows
    /\ IF borrow < 0
       THEN /\ last' = Call("collection", None, "BorrowError", None, <<>>)
            /\ UNCHANGED borrow
       ELSE /\ borrow' = borrow + 1
            /\ last' = Call("collection", None, "ok", collection, <<>>)
    /\ UNCHANGED <<handle, collection, rows, cursel>>
    /\ UNCHANGED ever_selected
    /\ UNCHANGED tipvars
    /\ UNCHANGED evvars

\* Mutant: the RefMut is handed out whatever is borrowed.
collection_mut_unchecked ==
    /\ Running
    /\ borrow' = -1
    /\ last' = Call("collection_mut", None, "ok", collection, <<>>)
    /\ UNCHANGED <<handle, collection, rows, cursel>>
    /\ UNCHANGED ever_selected
    /\ UNCHANGED tipvars
    /\ UNCHANGED evvars

\* collection_mut(): RefCell::borrow_mut, whose RefMut the caller then holds.
collection_mut ==
    /\ Running
    /\ IF borrow # 0
       THEN /\ last' = Call("collection_mut", None, "BorrowMutError", None, <<>>)
            /\ UNCHANGED borrow
       ELSE /\ borrow' = -1
            /\ last' = Call("collection_mut", None, "ok", collection, <<>>)
    /\ UNCHANGED <<handle, collection, rows, cursel>>
    /\ UNCHANGED ever_selected
    /\ UNCHANGED tipvars
    /\ UNCHANGED evvars

\* The caller drops a Ref it got from collection().
drop_ref ==
    /\ Running
    /\ borrow > 0
    /\ borrow' = borrow - 1
    /\ last' = Call("drop_ref", None, "ok", None, <<>>)
    /\ UNCHANGED <<handle, collection, rows, cursel>>
    /\ UNCHANGED ever_selected
    /\ UNCHANGED tipvars
    /\ UNCHANGED evvars

\* The caller drops the RefMut it got from collection_mut().
drop_ref_mut ==
    /\ Running
    /\ borrow = -1
    /\ borrow' = 0
    /\ last' = Call("drop_ref_mut", None, "ok", None, <<>>)
    /\ UNCHANGED <<handle, collection, rows, cursel>>
    /\ UNCHANGED ever_selected
    /\ UNCHANGED tipvars
    /\ UNCHANGED evvars

\* The caller changes the vector through the RefMut it holds: Vec::push.
ref_mut_push(item) ==
    /\ Running
    /\ borrow = -1
    /\ Len(collection) < MaxLen
    /\ collection' = Append(collection, item)
    /\ last' = Call("ref_mut_push", item, "ok", None, <<>>)
    /\ UNCHANGED <<handle, borrow, rows, cursel>>
    /\ UNCHANGED ever_selected
    /\ UNCHANGED tipvars
    /\ UNCHANGED evvars

\* The caller changes the vector through the RefMut it holds: Vec::remove.
ref_mut_remove(index) ==
    /\ Running
    /\ borrow = -1
    /\ index < Len(collection)
    /\ collection' = VecRemove(collection, index)
    /\ last' = Call("ref_mut_remove", index, "ok", collection[index + 1], <<>>)
    /\ UNCHANGED <<handle, borrow, rows, cursel>>
    /\ UNCHANGED ever_selected
    /\ UNCHANGED tipvars
    /\ UNCHANGED evvars

\* The prefixes a caller searches for: "ap", "B", "x" and "".
Queries == {<<97, 112>>, <<66>>, <<120>>, <<>>}

ListInit ==
    /\ handle = "NoHandle"
    /\ collection = <<>>
    /\ borrow = 0
    /\ rows = <<>>
    /\ cursel = -1
    /\ last = Call("default", None, "ok", None, <<>>)
    /\ ever_selected = FALSE

Next ==
    \/ bind
    \/ \E item \in Items : push(item)
    \/ \E index \in Indices : remove(index)
    \/ selection
    \/ selection_string
    \/ \E index \in {None} \cup {Some(i) : i \in Indices} : set_selection(index)
    \/ \E value \in Queries : set_selection_string(value)
    \/ sync
    \/ \E col \in Vecs(MaxNewLen) : set_collection(col)
    \/ len
    \/ collection_ref
    \/ collection_mut
    \/ drop_ref
    \/ drop_ref_mut
    \/ \E item \in Items : ref_mut_push(item)
    \/ \E index \in 0..(MaxLen - 1) : ref_mut_remove(index)

---------------------------------------------------------------------------
(* ToolTipTextData (events.rs): a pointer to the NMTTDISPINFOW of one      *)
(* tooltip notification, of which szText and uFlags are written.           *)

\* The length of NMTTDISPINFOW.szText, in UTF-16 units.
SZTEXT_LEN == 80

\* The longest text set_text takes.
MAX_TEXT_LEN == 79

TTF_DI_SETITEM == 32768

\* The values a unit read past the end of a buffer may have.
StrayUnits == {0, 97, 65535}

\* ToolTipTextData::clear: ptr::write of a zeroed [WCHAR; 80].
clear(buf) == [k \in 0..(SZTEXT_LEN - 1) |-> 0]

\* ptr::copy_nonoverlapping(src, dst, count): the first `count` units of dst
\* become those at src; a unit read past the end of src is a stray one.
copy_nonoverlapping(src, dst, count, stray) ==
    [k \in DOMAIN dst |->
        IF k < count THEN (IF k < Len(src) THEN src[k + 1] ELSE stray) ELSE dst[k]]

\* The buffer set_text leaves for a text it takes.
set_text_buffer(buf, text, stray) ==
    LET text_len   == str_len(text)
        local_text == to_utf16(text)
    IN  copy_nonoverlapping(local_text, clear(buf), text_len, stray)

set_text(text) ==
    /\ IF str_len(text) > MAX_TEXT_LEN
       THEN /\ tt_last' = [op |-> "set_text", arg |-> text, outcome |-> "rejected"]
            /\ UNCHANGED szText
       ELSE /\ \E stray \in StrayUnits : szText' = set_text_buffer(szText, text, stray)
            /\ tt_last' = [op |-> "set_text", arg |-> text, outcome |-> "written"]
    /\ UNCHANGED uFlags
    /\ UNCHANGED listvars
    /\ UNCHANGED evvars

\* Mutant: the bit is added, not or-ed in.
bit_or_add(word, bit) == word + bit

\* uFlags with the TTF_DI_SETITEM bit set, and with it cleared.
has_bit(word, bit) == (word \div bit) % 2 = 1
bit_or(word, bit) == IF has_bit(word, bit) THEN word ELSE word + bit
bit_and_not(word, bit) == IF has_bit(word, bit) THEN word - bit ELSE word

keep(b) ==
    /\ uFlags' = IF b THEN bit_or(uFlags, TTF_DI_SETITEM)
                 ELSE bit_and_not(uFlags, TTF_DI_SETITEM)
    /\ tt_last' = [op |-> "keep", arg |-> b, outcome |-> "ok"]
    /\ UNCHANGED szText
    /\ UNCHANGED listvars
    /\ UNCHANGED evvars

\* A text of n chars c.
Rep(c, n) == [k \in 1..n |-> c]

\* The chars of the texts tried: 'a', 'b' (1 UTF-8 byte each), e-acute (2),
\* the euro sign (3) and an emoji outside the BMP (4 bytes, 2 UTF-16 units).
TipChars == {97, 98, 233, 8364, 128512}

\* The lengths of the texts tried, in chars: those around the 79-byte limit
\* for chars of 1, 2 and 3 bytes.
TipLens == {0, 1, 2, 26, 27, 39, 40, MAX_TEXT_LEN, SZTEXT_LEN}

Texts == {Rep(c, n) : c \in TipChars, n \in TipLens}

\* The notification as the platform hands it over: an empty text, and the
\* flags of the tool (none, or TTF_IDISHWND).
TipInit ==
    /\ szText = [k \in 0..(SZTEXT_LEN - 1) |-> 0]
    /\ uFlags \in {0, 1}
    /\ tt_last = [op |-> "new", arg |-> <<>>, outcome |-> "ok"]

TipNext ==
    \/ \E text \in Texts : set_text(text)
    \/ \E b \in BOOLEAN : keep(b)

---------------------------------------------------------------------------
(* EventData (events.rs): the payload of one dispatch. The callback gets   *)
(* the payload for the extent of the dispatch; the payload is dropped when *)
(* the callback returns or when a panic unwinds out of it.                 *)

\* Most files carried by one drop.
MaxFiles == 1

\* Most calls a callback makes on its payload in one dispatch.
MaxCalls == 2

Tags == {"NoData", "OnWindowClose", "OnTooltipText", "OnChar", "OnKey",
         "OnPaint", "OnMouseWheel", "OnFileDrop"}

\* A DropFiles: the HDROP (0 is the null handle) and the files it carries.
DropFilesValues == {[drop |-> h, files |-> n] : h \in {0, 1}, n \in 0..MaxFiles}

\* The values each variant wraps.
Wrapped(tag) ==
    CASE tag = "NoData"        -> {"()"}
      [] tag = "OnWindowClose" -> {"WindowCloseData"}
      [] tag = "OnTooltipText" -> {"ToolTipTextData"}
      [] tag = "OnChar"        -> {97}
      [] tag = "OnKey"         -> {0, 65}
      [] tag = "OnPaint"       -> {"PaintData"}
      [] tag = "OnMouseWheel"  -> {120}
      [] tag = "OnFileDrop"    -> DropFilesValues

\* pub enum EventData: a tag and the value it wraps.
EventData == UNION {{[tag |-> t, val |-> v] : v \in Wrapped(t)} : t \in Tags}

\* match self { EventData::V(p) => p, d => panic!("Wrong data type: {:?}", d) }
unwrap_variant(d, variant) ==
    IF d.tag = variant
    THEN [outcome |-> "ok", ret |-> d.val]
    ELSE [outcome |-> "Wrong data type", ret |-> d.tag]

on_paint(d) == unwrap_variant(d, "OnPaint")

on_tooltip_text(d) == unwrap_variant(d, "OnTooltipText")

on_file_drop(d) == unwrap_variant(d, "OnFileDrop")

\* Mutant: a key code of 0 is returned for any other variant.
on_key_default(d) ==
    IF d.tag = "OnKey"
    THEN [outcome |-> "ok", ret |-> d.val]
    ELSE [outcome |-> "ok", ret |-> 0]

on_key(d) == unwrap_variant(d, "OnKey")

is_null(h) == h = 0

\* The shell calls of DropFiles::point, ::len and ::files on a drop of n files.
point_calls == <<"DragQueryPoint">>

len_calls == <<"DragQueryFileW">>

files_calls(n) == len_calls \o [k \in 1..(2 * n) |-> "DragQueryFileW"]

\* impl Debug for DropFiles, reached by {:?} on an EventData::OnFileDrop.
fmt_debug(d, log) ==
    IF d.tag = "OnFileDrop"
    THEN log \o point_calls \o files_calls(d.val.files)
    ELSE log

\* Mutant: the null test is inverted.
DropFiles_drop_if_null(df, log) ==
    IF is_null(df.drop) THEN Append(log, "DragFinish") ELSE log

\* impl Drop for DropFiles.
DropFiles_drop(df, log) ==
    IF ~is_null(df.drop) THEN Append(log, "DragFinish") ELSE log

\* The drop glue of EventData: only DropFiles has a destructor.
drop_in_place(d, log) ==
    IF d.tag = "OnFileDrop" THEN DropFiles_drop(d.val, log) ELSE log

InCallback == ev_pc = "callback" /\ ev_calls < MaxCalls

\* The platform delivers a notification: the dispatcher builds the payload
\* (for a close request, over its own flag, set) and enters the callback.
dispatch(d) ==
    /\ ev_pc \in {"idle", "returned"}
    /\ window_open
    /\ ev_pc' = "callback"
    /\ ev_data' = d
    /\ drag_log' = <<>>
    /\ should_exit' = TRUE
    /\ close_hist' = None
    /\ ev_calls' = 0
    /\ ev_last' = [op |-> "dispatch", outcome |-> "ok", ret |-> d.tag]
    /\ UNCHANGED window_open
    /\ UNCHANGED listvars
    /\ UNCHANGED tipvars

\* The callback calls an accessor of EventData with result r. A panic
\* formats the payload, then unwinds out of the dispatch, dropping it.
EventAccess(op, r) ==
    /\ InCallback
    /\ ev_calls' = ev_calls + 1
    /\ ev_last' = [op |-> op, outcome |-> r.outcome, ret |-> r.ret]
    /\ IF r.outcome = "ok"
       THEN /\ ev_pc' = "callback"
            /\ drag_log' = drag_log
       ELSE /\ ev_pc' = "unwound"
            /\ drag_log' = drop_in_place(ev_data, fmt_debug(ev_data, drag_log))
    /\ UNCHANGED <<ev_data, should_exit, close_hist, window_open>>
    /\ UNCHANGED listvars
    /\ UNCHANGED tipvars

call_on_paint == EventAccess("on_paint", on_paint(ev_data))

call_on_tooltip_text == EventAccess("on_tooltip_text", on_tooltip_text(ev_data))

call_on_file_drop == EventAccess("on_file_drop", on_file_drop(ev_data))

call_on_key == EventAccess("on_key", on_key(ev_data))

\* A method of DropFiles making the shell calls `calls` and returning ret.
DropFilesCall(op, calls, ret) ==
    /\ InCallback
    /\ ev_data.tag = "OnFileDrop"
    /\ ev_calls' = ev_calls + 1
    /\ drag_log' = drag_log \o calls
    /\ ev_last' = [op |-> op, outcome |-> "ok", ret |-> ret]
    /\ UNCHANGED <<ev_pc, ev_data, should_exit, close_hist, window_open>>
    /\ UNCHANGED listvars
    /\ UNCHANGED tipvars

DropFiles_point == DropFilesCall("point", point_calls, <<0, 0>>)

DropFiles_len == DropFilesCall("len", len_calls, ev_data.val.files)

DropFiles_files ==
    DropFilesCall("files", files_calls(ev_data.val.files),
                  [k \in 1..ev_data.val.files |-> k])

\* Mutant: the value is or-ed into the flag.
close_or(value) ==
    /\ InCallback
    /\ ev_data.tag = "OnWindowClose"
    /\ ev_calls' = ev_calls + 1
    /\ should_exit' = (should_exit \/ value)
    /\ close_hist' = Some(value)
    /\ ev_last' = [op |-> "close", outcome |-> "ok", ret |-> value]
    /\ UNCHANGED <<ev_pc, ev_data, drag_log, window_open>>
    /\ UNCHANGED listvars
    /\ UNCHANGED tipvars

\* WindowCloseData::close: *self.data = value.
close(value) ==
    /\ InCallback
    /\ ev_data.tag = "OnWindowClose"
    /\ ev_calls' = ev_calls + 1
    /\ should_exit' = value
    /\ close_hist' = Some(value)
    /\ ev_last' = [op |-> "close", outcome |-> "ok", ret |-> value]
    /\ UNCHANGED <<ev_pc, ev_data, drag_log, window_open>>
    /\ UNCHANGED listvars
    /\ UNCHANGED tipvars

\* WindowCloseData::closing: *self.data.
closing ==
    /\ InCallback
    /\ ev_data.tag = "OnWindowClose"
    /\ ev_calls' = ev_calls + 1
    /\ ev_last' = [op |-> "closing", outcome |-> "ok", ret |-> should_exit]
    /\ UNCHANGED <<ev_pc, ev_data, drag_log, should_exit, close_hist, window_open>>
    /\ UNCHANGED listvars
    /\ UNCHANGED tipvars

\* The callback returns: the payload is dropped, and the dispatcher of a
\* close request reads its flag back and destroys the window if it is set.
callback_return ==
    /\ ev_pc = "callback"
    /\ ev_pc' = "returned"
    /\ drag_log' = drop_in_place(ev_data, drag_log)
    /\ window_open' = IF ev_data.tag = "OnWindowClose" THEN ~should_exit
                      ELSE window_open
    /\ ev_last' = [op |-> "return", outcome |-> "ok", ret |-> ev_data.tag]
    /\ UNCHANGED <<ev_data, should_exit, close_hist, ev_calls>>
    /\ UNCHANGED listvars
    /\ UNCHANGED tipvars

\* No notification is being dispatched.
NoEvent ==
    /\ ev_pc = "idle"
    /\ ev_data = [tag |-> "NoData", val |-> "()"]
    /\ drag_log = <<>>
    /\ should_exit = TRUE
    /\ close_hist = None
    /\ window_open = TRUE
    /\ ev_calls = 0
    /\ ev_last = [op |-> "none", outcome |-> "ok", ret |-> "NoData"]

DispatchNext ==
    \/ \E d \in EventData : dispatch(d)
    \/ call_on_paint
    \/ call_on_tooltip_text
    \/ call_on_file_drop
    \/ call_on_key
    \/ DropFiles_point
    \/ DropFiles_len
    \/ DropFiles_files
    \/ \E value \in BOOLEAN : close(value)
    \/ closing
    \/ callback_return

---------------------------------------------------------------------------
(* Specifications: the list box alone, the tooltip payload alone, and the  *)
(* dispatch of one event payload after another.                            *)

\* No tooltip notification is being dispatched: there is no NMTTDISPINFOW.
NoTip ==
    /\ szText = <<>>
    /\ uFlags = 0
    /\ tt_last = [op |-> "none", arg |-> <<>>, outcome |-> "ok"]

Init == ListInit /\ NoTip /\ NoEvent

Spec == Init /\ [][Next]_vars

TipSpecInit == ListInit /\ TipInit /\ NoEvent

SpecToolTip == TipSpecInit /\ [][TipNext]_vars

SpecDispatch == Init /\ [][DispatchNext]_vars

---------------------------------------------------------------------------
(* Properties of the list box, checked under Spec. *)

\* The texts of the rendered rows.
RenderedTexts == [k \in 1..Len(rows) |-> from_utf16(rows[k])]

\* The Display texts of a vector's items.
DisplayTexts(v) == [k \in 1..Len(v) |-> format(v[k])]

Bound == handle = "Hwnd"

Returned(op) == last.op = op /\ last.outcome = "ok"

\* C1: right after a sync() that returned on a bound ListBox, whatever push,
\* remove and set_collection calls came before, the widget renders as many rows
\* as items holds and row i shows display(items[i]), in the order of items.
C1_SyncRendersItems ==
    Returned("sync") =>
        /\ Len(rows) = Len(collection)
        /\ RenderedTexts = DisplayTexts(collection)

\* A sync() has returned on three items that are not all the same.
C1_Witness ==
    /\ Returned("sync")
    /\ Bound
    /\ Len(collection) = 3
    /\ collection[1] # collection[2]

\* C2: a set_collection(new) that returns gives back the vector items held
\* before the call, leaves items equal to new, and leaves no borrow behind, so
\* that collection() right after it yields new.
C2_SetCollectionSwaps ==
    [][(last'.op = "set_collection" /\ last'.outcome = "ok") =>
          /\ last'.ret = collection
          /\ collection' = last'.arg
          /\ borrow' = 0]_vars

\* set_collection has returned a non-empty old vector for a different new one.
C2_Witness ==
    /\ Returned("set_collection")
    /\ last.ret # <<>>
    /\ last.arg # <<>>
    /\ last.ret # last.arg
    /\ collection = last.arg

\* C3 as stated: a remove(i) that returns, with i below items.len(), returns
\* items[i], deletes position i of items and deletes the rendered row i, so
\* that one row fewer is rendered.
C3_RemoveDeletesRow ==
    [][(last'.op = "remove" /\ last'.outcome = "ok") =>
          /\ last'.ret = collection[last'.arg + 1]
          /\ collection' = VecRemove(collection, last'.arg)
          /\ Len(rows') = Len(rows) - 1
          /\ rows' = VecRemove(rows, last'.arg)]_vars

\* C3 as amended: a remove(i) that returns, with i below items.len(), returns
\* items[i] and deletes position i of items; it deletes the rendered row i when
\* the widget renders more than i rows, and leaves the rendered rows as they are
\* when it renders i rows or fewer.
C3_RemoveDeletesRowIfRendered ==
    [][(last'.op = "remove" /\ last'.outcome = "ok") =>
          /\ last'.arg < Len(collection)
          /\ last'.ret = collection[last'.arg + 1]
          /\ collection' = VecRemove(collection, last'.arg)
          /\ rows' = IF last'.arg < Len(rows) THEN VecRemove(rows, last'.arg) ELSE rows]_vars

\* remove(1) has returned "b" from items "Ap", "b", "Ap" rendered as such.
C3_Witness ==
    /\ Returned("remove")
    /\ last.arg = 1
    /\ last.ret = 2
    /\ collection = <<1, 1>>
    /\ RenderedTexts = DisplayTexts(collection)

\* C4: on a bound ListBox, remove(index) with index not below items.len()
\* panics: it returns no item and leaves items as it was.
C4_RemoveOutOfRangeAborts ==
    [][(last'.op = "remove" /\ Bound /\ last'.arg >= Len(collection)) =>
          /\ last'.outcome # "ok"
          /\ last'.ret = None
          /\ collection' = collection]_vars

\* remove(items.len()) has panicked on a non-empty collection.
C4_Witness ==
    /\ Bound
    /\ last.op = "remove"
    /\ last.outcome = "IndexOutOfBounds"
    /\ collection # <<>>
    /\ last.arg = Len(collection)

\* The methods that look at the handle first.
BoundOnlyOps ==
    {"push", "remove", "selection", "selection_string", "set_selection",
     "set_selection_string", "sync", "set_collection", "len"}

\* C5: on an unbound ListBox each of push, remove, selection, selection_string,
\* set_selection, set_selection_string, sync, set_collection and len panics
\* with no message sent and items unchanged; collection() and collection_mut()
\* do not look at the handle: they return whenever the RefCell lets them.
C5_UnboundAborts ==
    [][blank(handle) =>
          /\ last'.op \in BoundOnlyOps =>
                /\ last'.outcome = "NOT_BOUND"
                /\ last'.sent = <<>>
                /\ collection' = collection
                /\ rows' = rows
                /\ cursel' = cursel
          /\ last'.op = "collection" => (last'.outcome = "ok" <=> borrow >= 0)
          /\ last'.op = "collection_mut" => (last'.outcome = "ok" <=> borrow = 0)]_vars

\* sync() has panicked on an unbound control whose items collection_mut() filled.
C5_Witness ==
    /\ blank(handle)
    /\ last.op = "sync"
    /\ last.outcome = "NOT_BOUND"
    /\ collection # <<>>

\* C6: selection() is None on a bound control on which no call has highlighted
\* a row; right after set_selection(Some(i)) with i below the rendered row
\* count it is Some(i); right after set_selection(None) it is None.
C6_SelectionFollowsSetSelection ==
    /\ (Bound /\ ~ever_selected) => selection_value(Widget) = None
    /\ (Returned("set_selection") /\ last.arg = None) => selection_value(Widget) = None
    /\ (Returned("set_selection") /\ last.arg # None /\ unwrap_or(last.arg, 0) < Len(rows)) =>
            selection_value(Widget) = last.arg

\* set_selection(Some(1)) has highlighted the second of the rendered rows.
C6_Witness ==
    /\ Returned("set_selection")
    /\ last.arg = Some(1)
    /\ Len(rows) >= 2
    /\ selection_value(Widget) = Some(1)

\* C7: on a bound ListBox, set_selection(Some(i)) with i not below the rendered
\* row count returns and changes nothing: selection(), the rendered rows and
\* items are as before the call.
C7_SetSelectionOutOfRangeNoOp ==
    [][(last'.op = "set_selection" /\ Bound /\ last'.arg # None
            /\ unwrap_or(last'.arg, 0) >= Len(rows)) =>
          /\ last'.outcome = "ok"
          /\ selection_value(Widget') = selection_value(Widget)
          /\ rows' = rows
          /\ collection' = collection]_vars

\* The rows that begin with the prefix, letter case ignored.
Matches(prefix) == {k \in 1..Len(rows) : has_prefix(rows[k], encode_wide_str(prefix))}

\* C8: set_selection_string(value) highlights and returns the lowest index of
\* a rendered row that begins with value, letter case ignored, also when that
\* is row 0; it returns None when no rendered row does.
C8_SelectsFirstMatch ==
    Returned("set_selection_string") =>
        IF Matches(last.arg) = {} THEN last.ret = None
        ELSE LET first == CHOOSE k \in Matches(last.arg) : \A j \in Matches(last.arg) : k <= j
             IN  /\ last.ret = Some(first - 1)
                 /\ selection_value(Widget) = Some(first - 1)

RefMutOps == {"collection_mut", "ref_mut_push", "ref_mut_remove", "drop_ref_mut"}

\* C15: taking the RefMut of collection_mut(), changing items through it and
\* dropping it leave the rendered rows, the highlighted row and the value
\* len() would return as they were; a len() that returns gives the number of
\* rendered rows, whatever items.len() is.
C15_CollectionMutLeavesWidget ==
    [][/\ last'.op \in RefMutOps =>
              /\ rows' = rows
              /\ cursel' = cursel
              /\ LB_GETCOUNT([rows |-> rows', cursel |-> cursel']).res = LB_GETCOUNT(Widget).res
       /\ (last'.op = "len" /\ last'.outcome = "ok") => last'.ret = Len(rows')]_vars

\* len() has returned 0 on a control whose items collection_mut() filled.
C15_Witness ==
    /\ Bound
    /\ Returned("len")
    /\ last.ret = 0
    /\ Len(collection) = 2
    /\ borrow = 0

\* The calls that borrow items exclusively.
BorrowMutOps == {"collection_mut", "push", "remove", "set_collection"}

\* C16: the borrows of items outstanding are shared ones only (borrow >= 0
\* of them) or one exclusive borrow only (borrow = -1). collection_mut() hands
\* out the exclusive borrow only when none is outstanding, collection() a
\* shared one only when no exclusive one is; collection_mut, push, remove and
\* set_collection called while a borrow is outstanding panic and leave items
\* and the outstanding borrows as they were.
C16_BorrowsNeverOverlap ==
    [][/\ borrow \in -1..MaxBorrows
       /\ (last'.op \in BorrowMutOps /\ borrow # 0) =>
              /\ last'.outcome \in {"BorrowMutError", "NOT_BOUND"}
              /\ collection' = collection
              /\ borrow' = borrow
       /\ (last'.op = "collection_mut" /\ last'.outcome = "ok") =>
              borrow = 0 /\ borrow' = -1
       /\ (last'.op = "collection" /\ last'.outcome = "ok") =>
              borrow >= 0 /\ borrow' = borrow + 1
       /\ (last'.op = "collection" /\ borrow < 0) =>
              last'.outcome = "BorrowError" /\ borrow' = borrow]_vars

\* remove(0) has panicked on a bound control while a Ref of collection() was held.
C16_Witness ==
    /\ Bound
    /\ last.op = "remove"
    /\ last.outcome = "BorrowMutError"
    /\ borrow > 0
    /\ collection # <<>>

\* The widget after sync() on a widget w of a control whose items are v.
SyncOf(w, v) ==
    add_strings(LB_INITSTORAGE(clear_inner(w), Len(v), 10 * Len(v)), v)

\* C17: a set_collection(new) that returns leaves as many rendered rows as
\* new has items, row i showing display(new[i]), and leaves the widget as
\* sync() leaves it on a control whose items are new.
C17_SetCollectionRendersNew ==
    [][(last'.op = "set_collection" /\ last'.outcome = "ok") =>
          /\ Len(rows') = Len(last'.arg)
          /\ [k \in 1..Len(rows') |-> from_utf16(rows'[k])] = DisplayTexts(last'.arg)
          /\ rows' = SyncOf(Widget, last'.arg).rows
          /\ cursel' = SyncOf(Widget, last'.arg).cursel]_vars

\* set_collection has replaced three items by two others on a control on
\* which a row had been selected, and returned.
C17_Witness ==
    /\ Returned("set_collection")
    /\ Len(last.ret) = 3
    /\ Len(last.arg) = 2
    /\ last.arg # SubSeq(last.ret, 1, 2)
    /\ ever_selected
    /\ RenderedTexts = DisplayTexts(last.arg)

\* C18: on a bound ListBox, whatever calls came before, selection() is None
\* or Some(i) with i below the number of rendered rows, the value of len().
C18_SelectionWithinRows ==
    Bound =>
        LET s == selection_value(Widget)
        IN  s = None \/ s[1] < as_usize(LB_GETCOUNT(Widget).res)

\* sync() has rebuilt the rows of a control on which a row had been
\* highlighted: there are rows, and none is highlighted.
C18_Witness ==
    /\ Bound
    /\ Returned("sync")
    /\ ever_selected
    /\ rows # <<>>
    /\ selection_value(Widget) = None

\* C19: on a bound ListBox, selection_string() returns; it returns None
\* exactly when selection() is None, and otherwise the rendered text of the
\* highlighted row, whatever items holds.
C19_SelectionStringReadsRow ==
    (Bound /\ last.op = "selection_string") =>
        /\ last.outcome = "ok"
        /\ (last.ret = None) <=> (selection_value(Widget) = None)
        /\ selection_value(Widget) # None =>
               last.ret = Some(RenderedTexts[selection_value(Widget)[1] + 1])

\* The rendered rows show display(items), row for row.
InSync == RenderedTexts = DisplayTexts(collection)

\* The calls that change items and the rendered rows together.
PairedOps == {"push", "remove", "set_collection"}

\* C21: on a bound ListBox created with the flags of flags() and
\* forced_flags(), none of which is LBS_SORT, and whose rows show
\* display(items) row for row, a push, remove or set_collection that returns
\* leaves rows that show display(items) row for row.
C21_PairedOpsKeepSync ==
    [][(Bound /\ InSync /\ last'.op \in PairedOps /\ last'.outcome = "ok") =>
          InSync']_vars

\* remove has returned on a control in sync, leaving two different items.
C21_Witness ==
    /\ ~sorted
    /\ Bound
    /\ Returned("remove")
    /\ InSync
    /\ Len(collection) = 2
    /\ collection[1] # collection[2]

\* C22: a remove(index) that panics because index is not below items.len()
\* leaves the rendered rows, the highlight and items as they were.
C22_RemoveAbortLeavesWidget ==
    [][(last'.op = "remove" /\ last'.outcome = "IndexOutOfBounds") =>
          /\ rows' = rows
          /\ cursel' = cursel
          /\ collection' = collection]_vars

\* The panics of a borrow that conflicts with one still held.
BorrowPanics == {"BorrowError", "BorrowMutError"}

\* C23: a push, sync or set_collection that panics because a borrow of
\* collection() or collection_mut() is still held leaves the rendered rows
\* and the highlight as they were.
C23_BorrowAbortLeavesWidget ==
    [][(last'.op \in {"push", "sync", "set_collection"} /\ last'.outcome \in BorrowPanics) =>
          /\ rows' = rows
          /\ cursel' = cursel]_vars

\* C24: a sync() that returns leaves items as they were, and a second
\* sync() right after it would leave the rows and the highlight that the
\* first one left.
C24_SyncIdempotent ==
    [][(last'.op = "sync" /\ last'.outcome = "ok") =>
          /\ collection' = collection
          /\ rows' = SyncOf(Widget, collection).rows
          /\ LET once == [rows |-> rows', cursel |-> cursel']
                 twice == SyncOf(once, collection')
             IN  twice.rows = once.rows /\ twice.cursel = once.cursel]_vars

\* sync() has returned on a control of two different items on which a row
\* had been highlighted, while a Ref of collection() was held.
C24_Witness ==
    /\ Bound
    /\ Returned("sync")
    /\ Len(collection) = 2
    /\ collection[1] # collection[2]
    /\ ever_selected
    /\ borrow > 0

---------------------------------------------------------------------------
(* Properties of the tooltip payload, checked under SpecToolTip. *)

\* The buffer that holds the units of a text and then only zeros.
PaddedText(text) ==
    LET units == encode_wide_str(text)
    IN  [k \in 0..(SZTEXT_LEN - 1) |-> IF k < Len(units) THEN units[k + 1] ELSE 0]

\* C9: set_text with a text of more than 79 characters returns without
\* touching the buffer, and set_text with a text of exactly 79 characters is
\* taken and written.
C9_RejectsOnlyLongTexts ==
    [][tt_last'.op = "set_text" =>
          /\ Len(tt_last'.arg) > MAX_TEXT_LEN =>
                (tt_last'.outcome = "rejected" /\ szText' = szText)
          /\ Len(tt_last'.arg) = MAX_TEXT_LEN => tt_last'.outcome = "written"]_vars

\* C10: after a set_text(text) that was taken, the buffer holds the units of
\* text and then only zeros, whatever it held before, and a zero is among its
\* 80 units.
C10_BufferIsTextThenZeros ==
    (tt_last.op = "set_text" /\ tt_last.outcome = "written") =>
        /\ szText = PaddedText(tt_last.arg)
        /\ \E k \in 0..(SZTEXT_LEN - 1) : szText[k] = 0

\* The bits of uFlags other than TTF_DI_SETITEM.
OtherBits(word) ==
    (word % TTF_DI_SETITEM) + ((word \div (2 * TTF_DI_SETITEM)) * (2 * TTF_DI_SETITEM))

\* C20: keep(b) leaves the TTF_DI_SETITEM bit of uFlags equal to b, whatever
\* it was, and leaves the other bits of uFlags and the text buffer as they
\* were; set_text leaves uFlags as it was.
C20_KeepSetsOnlyTheFlag ==
    [][/\ tt_last'.op = "keep" =>
              /\ (uFlags' \div TTF_DI_SETITEM) % 2 = (IF tt_last'.arg THEN 1 ELSE 0)
              /\ OtherBits(uFlags') = OtherBits(uFlags)
              /\ szText' = szText
       /\ tt_last'.op = "set_text" => uFlags' = uFlags]_vars

\* keep(false) has been called on a notification with another flag bit set
\* and a text written.
C20_Witness ==
    /\ tt_last.op = "keep"
    /\ tt_last.arg = FALSE
    /\ uFlags = 1
    /\ szText[0] # 0

---------------------------------------------------------------------------
(* Properties of the event payloads, checked under SpecDispatch. *)

\* The number of DragFinish calls in a log of shell calls.
Releases(log) == Cardinality({k \in DOMAIN log : log[k] = "DragFinish"})

\* C11: in a dispatch whose payload is a DropFiles with a non-null handle,
\* DragFinish is not called while the callback runs, and once the dispatch
\* is over, by return or by a panic of the callback, it has been called
\* exactly once and after every other shell call on the handle.
C11_ReleasedOnceOnEveryExit ==
    (ev_data.tag = "OnFileDrop" /\ ~is_null(ev_data.val.drop)) =>
        /\ ev_pc = "callback" => Releases(drag_log) = 0
        /\ ev_pc \in {"returned", "unwound"} =>
               /\ Releases(drag_log) = 1
               /\ drag_log[Len(drag_log)] = "DragFinish"

\* A callback called files() on a drop and then a wrong-variant accessor.
C11_Witness ==
    /\ ev_pc = "unwound"
    /\ ev_data.tag = "OnFileDrop"
    /\ ~is_null(ev_data.val.drop)
    /\ ev_data.val.files > 0
    /\ ev_calls = MaxCalls
    /\ Len(drag_log) > Len(point_calls \o files_calls(ev_data.val.files)) + 1

\* The variant each accessor is for.
OwnVariant(op) ==
    CASE op = "on_paint"        -> "OnPaint"
      [] op = "on_tooltip_text" -> "OnTooltipText"
      [] op = "on_file_drop"    -> "OnFileDrop"
      [] op = "on_key"          -> "OnKey"

Accessors == {"on_paint", "on_tooltip_text", "on_file_drop", "on_key"}

\* C12: an accessor of EventData returns exactly when the tag of the
\* payload is its own variant, and then returns the wrapped value; on any
\* other tag it panics with "Wrong data type" and the dispatch is over.
C12_AccessorMatchesTagOrAborts ==
    ev_last.op \in Accessors =>
        IF ev_data.tag = OwnVariant(ev_last.op)
        THEN ev_last.outcome = "ok" /\ ev_last.ret = ev_data.val
        ELSE ev_last.outcome = "Wrong data type" /\ ev_pc = "unwound"

\* The paint accessor was called on a payload without data.
C12_Witness ==
    /\ ev_last.op = "on_paint"
    /\ ev_data.tag = "NoData"
    /\ ev_last.outcome = "Wrong data type"

\* The value of the dispatcher's flag according to the calls of close so far.
LastWritten == IF close_hist = None THEN TRUE ELSE close_hist[1]

\* C13: in the dispatch of a close request, closing() returns the value of
\* the last close(v), or the flag as the dispatcher set it if there was
\* none; when the callback has returned, the window was destroyed exactly
\* if that value is true, so a last close(false) leaves the window open.
C13_DispatcherReadsLastClose ==
    ev_data.tag = "OnWindowClose" =>
        /\ ev_last.op = "closing" => ev_last.ret = LastWritten
        /\ ev_pc = "returned" => window_open = ~LastWritten

\* A callback called close(true), then close(false), and returned.
C13_Witness ==
    /\ ev_data.tag = "OnWindowClose"
    /\ ev_pc = "returned"
    /\ ev_calls = MaxCalls
    /\ close_hist = Some(FALSE)
    /\ window_open

=============================================================================
